---- MODULE Spec2Model ----
(***************************************************************************)
(* Model of src/bank_system.py: the Record Store (DatabaseManager) and the *)
(* Ledger Service (BankService).                                           *)
(*                                                                         *)
(* Every call of DatabaseManager.execute_query / fetch_all_dict opens its  *)
(* own connection and commits on its own, so one store query is one step   *)
(* of the model; a service method is a frame on a call stack whose pc      *)
(* walks from query to query.  Any store query may raise sqlite3.Error     *)
(* (StoreFails), which the enclosing try/except of the running method      *)
(* turns into a (False, message) result; a method without try/except lets  *)
(* the exception escape (result kind "Raised").                            *)
(* The Identity Service (UserService) is modelled the same way.            *)
(*                                                                         *)
(* Amounts and balances are whole currency units (the code stores REAL;    *)
(* rounding of binary fractions is outside this model).  The (bool,        *)
(* message) pair a method returns is modelled by the kind of its message.  *)
(***************************************************************************)
EXTENDS Integers, Sequences, FiniteSets, TLC

\* ------------------------------------------------------------------ bounds
MaxAmount == 2
MaxOverdraft == 1
MaxTx == 2
MaxFaults == 2
MaxClock == 1

\* Inputs the callers may pass.
AccNums == {"A1", "A2"}
Currencies == {"RUB", "USD"}
Amounts == 0..MaxAmount
Overdrafts == {-1, 0, MaxOverdraft}
UserIds == {1, 2}
Usernames == {"ivanov", "petrova"}
Passwords == {"password123", "qwerty456"}
Profiles == {"Ivan Ivanov", "Maria Petrova"}
MainThread == "main"
Threads == {"main", "other"}

VARIABLES
    accounts,      \* table accounts: account_number -> row (partial function)
    transactions,  \* table transactions, in insertion (id) order
    stack,         \* per thread: the frames of the running service methods
    ret,           \* per thread: the value the last finished method returned
    ctx,           \* per thread: the running/last top-level call and what it observed
    faults,        \* number of store queries that raised sqlite3.Error so far
    users,         \* table users, in insertion (id) order
    clock          \* datetime.now(), in whole seconds

vars == <<accounts, transactions, stack, ret, ctx, faults, users, clock>>

\* ------------------------------------------------------------ result values
Result(kind) == [ok |-> kind = "Ok", kind |-> kind, available |-> 0]
Insufficient(avail) == [ok |-> FALSE, kind |-> "InsufficientFunds", available |-> avail]
NoResult == Result("none")

\* ------------------------------------------------------------ record store
NoRow == [found |-> FALSE, user_id |-> 0, currency |-> "none", balance |-> 0,
          overdraft_limit |-> 0]

get_account(account_number) ==
    IF account_number \in DOMAIN accounts
    THEN [found |-> TRUE,
          user_id |-> accounts[account_number].user_id,
          currency |-> accounts[account_number].currency,
          balance |-> accounts[account_number].balance,
          overdraft_limit |-> accounts[account_number].overdraft_limit]
    ELSE NoRow

\* UPDATE accounts SET balance = balance + delta WHERE account_number = n
UpdateBalance(n, delta) ==
    IF n \in DOMAIN accounts
    THEN [accounts EXCEPT ![n].balance = @ + delta]
    ELSE accounts

\* INSERT INTO transactions (account_number, transaction_type, amount, description,
\* timestamp): id is the AUTOINCREMENT key, timestamp is datetime.now() cut to
\* the second.
InsertTransaction(n, type, amount, description) ==
    Append(transactions,
           [id |-> Len(transactions) + 1,
            account_number |-> n, transaction_type |-> type,
            amount |-> amount, description |-> description,
            timestamp |-> clock])

\* Mutant: the available amount is taken one unit too large.
Available_OffByOne(row) == row.balance + row.overdraft_limit + 1

\* account['balance'] + account['overdraft_limit']
Available(row) == row.balance + row.overdraft_limit

\* ------------------------------------------------------------ call stack
Frame(fn, pc, acct, to, amount, desc) ==
    [fn |-> fn, pc |-> pc, acct |-> acct, to |-> to, amount |-> amount,
     desc |-> desc, row |-> NoRow, row2 |-> NoRow]

Idle(t) == stack[t] = <<>>
Top(t) == stack[t][Len(stack[t])]
At(t, fn, pc) == ~Idle(t) /\ Top(t).fn = fn /\ Top(t).pc = pc
Pop(s) == SubSeq(s, 1, Len(s) - 1)
SetTop(s, f) == [s EXCEPT ![Len(s)] = f]

NoCtx == [op |-> "none", acct |-> "A1", to |-> "A1", amount |-> 0,
          user_id |-> 0, currency |-> "none", overdraft_limit |-> 0,
          pre |-> << >>, pretx |-> 0, nq |-> 0, faulted |-> FALSE,
          w |-> NoResult, d |-> NoResult, c |-> NoResult]

Init ==
    /\ accounts = << >>
    /\ transactions = << >>
    /\ stack = [t \in Threads |-> << >>]
    /\ ret = [t \in Threads |-> NoResult]
    /\ ctx = [t \in Threads |-> NoCtx]
    /\ faults = 0
    /\ users = << >>
    /\ clock = 0

\* ------------------------------------------------------ method entry / exit
\* return <value> from the running method of thread t
Return(t, r) ==
    /\ stack' = [stack EXCEPT ![t] = Pop(@)]
    /\ ret' = [ret EXCEPT ![t] = r]

\* Move the running method of thread t on to frame f (a later pc of the same method).
Continue(t, f) ==
    /\ stack' = [stack EXCEPT ![t] = SetTop(@, f)]
    /\ UNCHANGED ret

\* Mutant: the method is entered without the amount check.
Enter_NoAmountCheck(t, s, f) ==
    /\ stack' = [stack EXCEPT ![t] = Append(s, f)]
    /\ ret' = [ret EXCEPT ![t] = NoResult]

\* deposit / withdraw / transfer are entered with caller stack s: the first
\* statement of each is the amount check, made before any store query.
Enter(t, s, f) ==
    IF f.amount <= 0
    THEN /\ stack' = [stack EXCEPT ![t] = s]
         /\ ret' = [ret EXCEPT ![t] = Result("InvalidAmount")]
    ELSE /\ stack' = [stack EXCEPT ![t] = Append(s, f)]
         /\ ret' = [ret EXCEPT ![t] = NoResult]

\* A top-level call starts: remember its arguments and the store it started from.
Begin(t, op, acct, to, amount) ==
    ctx' = [ctx EXCEPT ![t] = [NoCtx EXCEPT !.op = op, !.acct = acct, !.to = to,
                                            !.amount = amount, !.pre = accounts,
                                            !.pretx = Len(transactions)]]

\* One store query made by the running top-level call of thread t.
Queried(t) == ctx' = [ctx EXCEPT ![t].nq = @ + 1]

\* ------------------------------------------------------------- init_database
\* Mutant: the schema is created with DROP TABLE / CREATE TABLE for transactions.
init_database_Recreates ==
    /\ \A t \in Threads : Idle(t)
    /\ transactions' = << >>
    /\ UNCHANGED <<accounts, stack, ret, ctx, faults, users, clock>>

\* DatabaseManager() on the store file of an earlier run: every table is made with
\* CREATE TABLE IF NOT EXISTS, and Init is the store with its tables, so the
\* statements find them and change nothing.
init_database ==
    /\ \A t \in Threads : Idle(t)
    /\ UNCHANGED vars

\* ------------------------------------------------------------ create_account
\* Mutant: the INSERT replaces the row of a taken account number.
create_account_Replaces(t, user_id, currency, overdraft_limit) ==
    /\ Idle(t)
    /\ \E n \in AccNums :
          /\ accounts' = (n :> [user_id |-> user_id, currency |-> currency,
                               balance |-> 0, overdraft_limit |-> overdraft_limit])
                         @@ accounts
          /\ ret' = [ret EXCEPT ![t] = Result("Ok")]
    /\ ctx' = [ctx EXCEPT ![t] = [NoCtx EXCEPT !.op = "create_account",
                                               !.user_id = user_id,
                                               !.currency = currency,
                                               !.overdraft_limit = overdraft_limit,
                                               !.pre = accounts,
                                               !.pretx = Len(transactions),
                                               !.nq = 1]]
    /\ UNCHANGED <<transactions, stack, faults>>

\* generate_account_number draws n; the one INSERT of the method raises
\* sqlite3.IntegrityError on a PRIMARY KEY clash, which the except clause returns
\* as (False, "Ошибка при создании счета ...").  The method makes a single query,
\* so it is one step.
create_account(t, user_id, currency, overdraft_limit) ==
    /\ Idle(t)
    /\ \E n \in AccNums :
          IF n \in DOMAIN accounts
          THEN /\ ret' = [ret EXCEPT ![t] = Result("StorageError")]
               /\ UNCHANGED accounts
          ELSE /\ accounts' = accounts @@
                     (n :> [user_id |-> user_id, currency |-> currency,
                            balance |-> 0, overdraft_limit |-> overdraft_limit])
               /\ ret' = [ret EXCEPT ![t] = Result("Ok")]
    /\ ctx' = [ctx EXCEPT ![t] = [NoCtx EXCEPT !.op = "create_account",
                                               !.user_id = user_id,
                                               !.currency = currency,
                                               !.overdraft_limit = overdraft_limit,
                                               !.pre = accounts,
                                               !.pretx = Len(transactions),
                                               !.nq = 1]]
    /\ UNCHANGED <<transactions, stack, faults>>

\* ------------------------------------------------------------------ deposit
deposit(t, account_number, amount) ==
    /\ Idle(t)
    /\ Len(transactions) + 1 <= MaxTx
    /\ Begin(t, "deposit", account_number, account_number, amount)
    /\ Enter(t, << >>, Frame("deposit", "get", account_number, account_number,
                             amount, "user"))
    /\ UNCHANGED <<accounts, transactions, faults>>

DepositGet(t) ==
    /\ At(t, "deposit", "get")
    /\ LET f == Top(t)
           account == get_account(f.acct)
       IN  IF ~account.found
           THEN Return(t, Result("AccountNotFound"))
           ELSE Continue(t, [f EXCEPT !.pc = "update", !.row = account])
    /\ Queried(t)
    /\ UNCHANGED <<accounts, transactions, faults>>

DepositUpdate(t) ==
    /\ At(t, "deposit", "update")
    /\ accounts' = UpdateBalance(Top(t).acct, Top(t).amount)
    /\ Continue(t, [Top(t) EXCEPT !.pc = "insert"])
    /\ Queried(t)
    /\ UNCHANGED <<transactions, faults>>

DepositInsert(t) ==
    /\ At(t, "deposit", "insert")
    /\ transactions' = InsertTransaction(Top(t).acct, "DEPOSIT", Top(t).amount,
                                         Top(t).desc)
    /\ Return(t, Result("Ok"))
    /\ Queried(t)
    /\ UNCHANGED <<accounts, faults>>

\* ----------------------------------------------------------------- withdraw
withdraw(t, account_number, amount) ==
    /\ Idle(t)
    /\ Len(transactions) + 1 <= MaxTx
    /\ Begin(t, "withdraw", account_number, account_number, amount)
    /\ Enter(t, << >>, Frame("withdraw", "get", account_number, account_number,
                             amount, "user"))
    /\ UNCHANGED <<accounts, transactions, faults>>

\* Mutant: the funds check refuses a withdrawal of exactly the available amount.
WithdrawGet_Strict(t) ==
    /\ At(t, "withdraw", "get")
    /\ LET f == Top(t)
           account == get_account(f.acct)
           available == Available(account)
       IN  IF ~account.found
           THEN Return(t, Result("AccountNotFound"))
           ELSE IF f.amount >= available
           THEN Return(t, Insufficient(available))
           ELSE Continue(t, [f EXCEPT !.pc = "update", !.row = account])
    /\ Queried(t)
    /\ UNCHANGED <<accounts, transactions, faults>>

\* Mutant: the funds check is left out.
WithdrawGet_NoCheck(t) ==
    /\ At(t, "withdraw", "get")
    /\ LET f == Top(t)
           account == get_account(f.acct)
       IN  IF ~account.found
           THEN Return(t, Result("AccountNotFound"))
           ELSE Continue(t, [f EXCEPT !.pc = "update", !.row = account])
    /\ Queried(t)
    /\ UNCHANGED <<accounts, transactions, faults>>

WithdrawGet(t) ==
    /\ At(t, "withdraw", "get")
    /\ LET f == Top(t)
           account == get_account(f.acct)
           available == Available(account)
       IN  IF ~account.found
           THEN Return(t, Result("AccountNotFound"))
           ELSE IF f.amount > available
           THEN Return(t, Insufficient(available))
           ELSE Continue(t, [f EXCEPT !.pc = "update", !.row = account])
    /\ Queried(t)
    /\ UNCHANGED <<accounts, transactions, faults>>

\* Mutant: the withdrawal adds the amount to the balance.
WithdrawUpdate_Adds(t) ==
    /\ At(t, "withdraw", "update")
    /\ accounts' = UpdateBalance(Top(t).acct, Top(t).amount)
    /\ Continue(t, [Top(t) EXCEPT !.pc = "insert"])
    /\ Queried(t)
    /\ UNCHANGED <<transactions, faults>>

WithdrawUpdate(t) ==
    /\ At(t, "withdraw", "update")
    /\ accounts' = UpdateBalance(Top(t).acct, -Top(t).amount)
    /\ Continue(t, [Top(t) EXCEPT !.pc = "insert"])
    /\ Queried(t)
    /\ UNCHANGED <<transactions, faults>>

WithdrawInsert(t) ==
    /\ At(t, "withdraw", "insert")
    /\ transactions' = InsertTransaction(Top(t).acct, "WITHDRAWAL", Top(t).amount,
                                         Top(t).desc)
    /\ Return(t, Result("Ok"))
    /\ Queried(t)
    /\ UNCHANGED <<accounts, faults>>

\* ----------------------------------------------------------------- transfer
transfer(t, from_account, to_account, amount) ==
    /\ Idle(t)
    /\ Len(transactions) + 2 <= MaxTx
    /\ Begin(t, "transfer", from_account, to_account, amount)
    /\ Enter(t, << >>, Frame("transfer", "get_from", from_account, to_account,
                             amount, "user"))
    /\ UNCHANGED <<accounts, transactions, faults>>

TransferGetFrom(t) ==
    /\ At(t, "transfer", "get_from")
    /\ Continue(t, [Top(t) EXCEPT !.pc = "get_to", !.row = get_account(Top(t).acct)])
    /\ Queried(t)
    /\ UNCHANGED <<accounts, transactions, faults>>

\* Mutant: the currency check is missing.
TransferCheck_NoCurrency(from_acc, to_acc, amount) ==
    IF ~from_acc.found THEN Result("SourceNotFound")
    ELSE IF ~to_acc.found THEN Result("DestinationNotFound")
    ELSE IF amount > Available(from_acc) THEN Insufficient(Available(from_acc))
    ELSE Result("Ok")

\* Mutant: the destination is checked before the source.
TransferCheck_DestinationFirst(from_acc, to_acc, amount) ==
    IF ~to_acc.found THEN Result("DestinationNotFound")
    ELSE IF ~from_acc.found THEN Result("SourceNotFound")
    ELSE IF from_acc.currency # to_acc.currency THEN Result("CurrencyMismatch")
    ELSE IF amount > Available(from_acc) THEN Insufficient(Available(from_acc))
    ELSE Result("Ok")

\* The checks transfer makes once both rows are read: the error kind, or "Ok".
TransferCheck(from_acc, to_acc, amount) ==
    IF ~from_acc.found THEN Result("SourceNotFound")
    ELSE IF ~to_acc.found THEN Result("DestinationNotFound")
    ELSE IF from_acc.currency # to_acc.currency THEN Result("CurrencyMismatch")
    ELSE IF amount > Available(from_acc) THEN Insufficient(Available(from_acc))
    ELSE Result("Ok")

TransferGetTo(t) ==
    /\ At(t, "transfer", "get_to")
    /\ LET f == Top(t)
           to_acc == get_account(f.to)
           check == TransferCheck(f.row, to_acc, f.amount)
       IN  IF ~check.ok
           THEN Return(t, check)
           ELSE Enter(t, SetTop(stack[t], [f EXCEPT !.pc = "withdrawn", !.row2 = to_acc]),
                      Frame("withdraw", "get", f.acct, f.acct, f.amount, "transfer_out"))
    /\ Queried(t)
    /\ UNCHANGED <<accounts, transactions, faults>>

\* Mutant: the deposit leg credits the source account.
TransferWithdrawn_CreditsSource(t) ==
    /\ At(t, "transfer", "withdrawn")
    /\ LET f == Top(t)
       IN  IF ~ret[t].ok
           THEN Return(t, ret[t])
           ELSE Enter(t, SetTop(stack[t], [f EXCEPT !.pc = "deposited"]),
                      Frame("deposit", "get", f.acct, f.acct, f.amount, "transfer_in"))
    /\ ctx' = [ctx EXCEPT ![t].w = ret[t]]
    /\ UNCHANGED <<accounts, transactions, faults>>

\* success, message = self.withdraw(...) has returned
TransferWithdrawn(t) ==
    /\ At(t, "transfer", "withdrawn")
    /\ LET f == Top(t)
       IN  IF ~ret[t].ok
           THEN Return(t, ret[t])
           ELSE Enter(t, SetTop(stack[t], [f EXCEPT !.pc = "deposited"]),
                      Frame("deposit", "get", f.to, f.to, f.amount, "transfer_in"))
    /\ ctx' = [ctx EXCEPT ![t].w = ret[t]]
    /\ UNCHANGED <<accounts, transactions, faults>>

\* success, message = self.deposit(...) has returned
TransferDeposited(t) ==
    /\ At(t, "transfer", "deposited")
    /\ LET f == Top(t)
       IN  IF ~ret[t].ok
           THEN Enter(t, SetTop(stack[t], [f EXCEPT !.pc = "rolled_back"]),
                      Frame("deposit", "get", f.acct, f.acct, f.amount, "rollback"))
           ELSE Return(t, Result("Ok"))
    /\ ctx' = [ctx EXCEPT ![t].d = ret[t]]
    /\ UNCHANGED <<accounts, transactions, faults>>

\* self.deposit(from_account, amount, "Откат перевода") has returned; its value is dropped
TransferRolledBack(t) ==
    /\ At(t, "transfer", "rolled_back")
    /\ Return(t, Result("TransferFailed"))
    /\ ctx' = [ctx EXCEPT ![t].c = ret[t]]
    /\ UNCHANGED <<accounts, transactions, faults>>

\* ------------------------------------------------------------ store failure
QueryPcs == {"get", "update", "insert", "get_from", "get_to",
             "select_user", "insert_user"}

\* The query the running method is about to make raises sqlite3.Error: nothing is
\* written, and the method's own except clause returns (False, "Ошибка ...").
StoreFails(t) ==
    /\ ~Idle(t)
    /\ Top(t).pc \in QueryPcs
    /\ faults < MaxFaults
    /\ faults' = faults + 1
    /\ Return(t, Result("StorageError"))
    /\ ctx' = [ctx EXCEPT ![t].nq = @ + 1, ![t].faulted = TRUE]
    /\ UNCHANGED <<accounts, transactions>>

\* ----------------------------------------------------------- get_transactions
\* datetime.now() moves on to the next second.
Tick ==
    /\ clock < MaxClock
    /\ clock' = clock + 1
    /\ UNCHANGED <<accounts, transactions, stack, ret, ctx, faults, users>>

Limits == 0..MaxTx

\* WHERE account_number = ?: the ids of the rows of the account.
RowsOf(account_number) ==
    {i \in 1..Len(transactions) : transactions[i].account_number = account_number}

\* ORDER BY timestamp DESC: the rows of the account in an order in which no row
\* comes before one with a greater timestamp.  The store fixes no order among rows
\* with equal timestamps, so every such order is a possible result.
OrderedByTimestampDesc(account_number) ==
    LET ids == RowsOf(account_number)
        n   == Cardinality(ids)
    IN  {q \in [1..n -> ids] :
            /\ \A i, j \in 1..n : i # j => q[i] # q[j]
            /\ \A i, j \in 1..n :
                  i < j => transactions[q[i]].timestamp >= transactions[q[j]].timestamp}

\* LIMIT ?
Limited(q, limit) == SubSeq(q, 1, IF limit < Len(q) THEN limit ELSE Len(q))

\* SELECT transaction_type, amount, description, timestamp
Selected(r) == [transaction_type |-> r.transaction_type, amount |-> r.amount,
                description |-> r.description, timestamp |-> r.timestamp]

HistoryCtx(account_number, limit, picked) ==
    [op |-> "get_transactions", acct |-> account_number, limit |-> limit,
     picked |-> picked, nq |-> 1, faulted |-> FALSE]

\* The method makes one query, so it is one step; picked remembers which rows
\* (by id) the returned dicts were made from.
get_transactions(t, account_number, limit) ==
    /\ Idle(t)
    /\ \E q \in OrderedByTimestampDesc(account_number) :
          LET picked == Limited(q, limit)
          IN  /\ ret' = [ret EXCEPT ![t] =
                            [ok |-> TRUE, kind |-> "Rows",
                             rows |-> [i \in 1..Len(picked) |->
                                          Selected(transactions[picked[i]])]]]
              /\ ctx' = [ctx EXCEPT ![t] = HistoryCtx(account_number, limit, picked)]
    /\ UNCHANGED <<accounts, transactions, stack, faults, users, clock>>

\* ========================================================= Identity Service
\* hashlib.sha256(password.encode()).hexdigest(): a digest that differs from the
\* password and, on the passwords used here, from every other digest.
hash_password(password) == <<"sha256", password>>

\* SELECT ... FROM users WHERE username = ?  (fetchone: the row or None)
NoUser == [found |-> FALSE]
find_user(username) ==
    IF \E i \in 1..Len(users) : users[i].username = username
    THEN LET i == CHOOSE j \in 1..Len(users) : users[j].username = username
         IN  [found |-> TRUE, id |-> users[i].id, profile |-> users[i].profile,
              username |-> users[i].username,
              password_hash |-> users[i].password_hash]
    ELSE NoUser

\* What a call of the Identity Service is observed to do.
UserCtx(op, username, profile, password) ==
    [op |-> op, username |-> username, profile |-> profile, password |-> password,
     pre |-> users, nq |-> 0, faulted |-> FALSE]

\* ------------------------------------------------------------ register_user
register_user(t, username, profile, password) ==
    /\ Idle(t)
    /\ stack' = [stack EXCEPT ![t] =
                    << [fn |-> "register_user", pc |-> "select_user",
                        username |-> username, profile |-> profile,
                        password |-> password] >>]
    /\ ret' = [ret EXCEPT ![t] = NoResult]
    /\ ctx' = [ctx EXCEPT ![t] = UserCtx("register_user", username, profile, password)]
    /\ UNCHANGED <<accounts, transactions, faults, users, clock>>

\* Mutant: the username is not looked up before the insert.
RegisterSelect_NoCheck(t) ==
    /\ At(t, "register_user", "select_user")
    /\ Continue(t, [Top(t) EXCEPT !.pc = "insert_user"])
    /\ Queried(t)
    /\ UNCHANGED <<accounts, transactions, faults, users, clock>>

\* existing = SELECT id FROM users WHERE username = ?
RegisterSelect(t) ==
    /\ At(t, "register_user", "select_user")
    /\ IF find_user(Top(t).username).found
       THEN Return(t, Result("UsernameTaken"))
       ELSE Continue(t, [Top(t) EXCEPT !.pc = "insert_user"])
    /\ Queried(t)
    /\ UNCHANGED <<accounts, transactions, faults, users, clock>>

\* Mutant: the users table has no UNIQUE constraint on username.
RegisterInsert_NoUnique(t) ==
    /\ At(t, "register_user", "insert_user")
    /\ users' = Append(users,
                       [id |-> Len(users) + 1, username |-> Top(t).username,
                        profile |-> Top(t).profile,
                        password_hash |-> hash_password(Top(t).password)])
    /\ Return(t, Result("Ok"))
    /\ Queried(t)
    /\ UNCHANGED <<accounts, transactions, faults, clock>>

\* INSERT INTO users (...): username is UNIQUE NOT NULL, so the insert of a taken
\* username raises sqlite3.IntegrityError, which the except clause returns as
\* (False, "Ошибка базы данных: ...").
RegisterInsert(t) ==
    /\ At(t, "register_user", "insert_user")
    /\ IF find_user(Top(t).username).found
       THEN /\ Return(t, Result("StorageError"))
            /\ UNCHANGED users
       ELSE /\ users' = Append(users,
                               [id |-> Len(users) + 1, username |-> Top(t).username,
                                profile |-> Top(t).profile,
                                password_hash |-> hash_password(Top(t).password)])
            /\ Return(t, Result("Ok"))
    /\ Queried(t)
    /\ UNCHANGED <<accounts, transactions, faults, clock>>

\* ------------------------------------------------------------- authenticate
AuthNone == [ok |-> FALSE, kind |-> "None"]
AuthSummary(row) ==
    [ok |-> TRUE, kind |-> "Summary", id |-> row.id, profile |-> row.profile,
     username |-> row.username]

\* Mutant: the password is not compared.
authenticate_result_NoPassword(username, password) ==
    LET result == find_user(username)
    IN  IF ~result.found THEN AuthNone ELSE AuthSummary(result)

authenticate_result(username, password) ==
    LET result == find_user(username)
    IN  IF ~result.found THEN AuthNone
        ELSE IF hash_password(password) = result.password_hash
        THEN AuthSummary(result)
        ELSE AuthNone

\* The method makes one query, so it is one step.
authenticate(t, username, password) ==
    /\ Idle(t)
    /\ ret' = [ret EXCEPT ![t] = authenticate_result(username, password)]
    /\ ctx' = [ctx EXCEPT ![t] =
                  [UserCtx("authenticate", username, "none", password) EXCEPT !.nq = 1]]
    /\ UNCHANGED <<accounts, transactions, stack, faults, users, clock>>

\* The SELECT of authenticate raises sqlite3.Error: neither execute_query nor
\* authenticate has an except clause, so the exception leaves the method and the
\* caller gets no value.
Raised == [ok |-> FALSE, kind |-> "Raised"]

authenticate_raises(t, username, password) ==
    /\ Idle(t)
    /\ faults < MaxFaults
    /\ faults' = faults + 1
    /\ ret' = [ret EXCEPT ![t] = Raised]
    /\ ctx' = [ctx EXCEPT ![t] =
                  [UserCtx("authenticate", username, "none", password)
                       EXCEPT !.nq = 1, !.faulted = TRUE]]
    /\ UNCHANGED <<accounts, transactions, stack, users, clock>>

\* --------------------------------------------------------------------- spec
\* The presentation layer calls one service method; it creates accounts for
\* self.current_user['id'], the user of the session.
CurrentUser == 1

Call(t) ==
    \/ \E c \in Currencies, o \in Overdrafts :
           create_account(t, CurrentUser, c, o)
    \/ \E a \in AccNums, x \in Amounts : deposit(t, a, x)
    \/ \E a \in AccNums, x \in Amounts : withdraw(t, a, x)
    \/ \E a \in AccNums, b \in AccNums, x \in Amounts : transfer(t, a, b, x)

\* The running method makes its next store query or handles a returned call.
Run(t) ==
    \/ DepositGet(t)
    \/ DepositUpdate(t)
    \/ DepositInsert(t)
    \/ WithdrawGet(t)
    \/ WithdrawUpdate(t)
    \/ WithdrawInsert(t)
    \/ TransferGetFrom(t)
    \/ TransferGetTo(t)
    \/ TransferWithdrawn(t)
    \/ TransferDeposited(t)

\* Single-threaded execution on a store that never fails.  The compensating
\* deposit of transfer is made only after a deposit that failed, which takes a
\* store failure once transfer has seen the destination, so its return
\* (TransferRolledBack) is a step of NextFail alone.
Next ==
    /\ Call(MainThread) \/ Run(MainThread)
    /\ UNCHANGED <<users, clock>>

Spec == Init /\ [][Next]_vars

\* Single-threaded execution on a store whose queries may raise sqlite3.Error,
\* followed up to the return of the first call in which a query failed.
NextFail ==
    /\ \/ faults = 0 /\ Call(MainThread)
       \/ Run(MainThread)
       \/ TransferRolledBack(MainThread)
       \/ StoreFails(MainThread)
    /\ UNCHANGED <<users, clock>>

SpecFail == Init /\ [][NextFail]_vars

\* Account creation for the users of successive sessions, with deposits so that
\* accounts hold money when a later creation draws their number.
NextAccounts ==
    /\ \/ \E u \in UserIds, c \in Currencies, o \in Overdrafts :
              create_account(MainThread, u, c, o)
       \/ \E a \in AccNums : deposit(MainThread, a, MaxAmount)
       \/ DepositGet(MainThread)
       \/ DepositUpdate(MainThread)
       \/ DepositInsert(MainThread)
    /\ UNCHANGED <<users, clock>>

SpecAccounts == Init /\ [][NextAccounts]_vars

\* Deposits at the pace of the wall clock, and reads of the history.
NextHistory ==
    \/ /\ \/ \E c \in Currencies : create_account(MainThread, CurrentUser, c, 0)
          \/ \E a \in AccNums, x \in Amounts : deposit(MainThread, a, x)
          \/ DepositGet(MainThread)
          \/ DepositUpdate(MainThread)
          \/ DepositInsert(MainThread)
       /\ UNCHANGED <<users, clock>>
    \/ Tick
    \/ \E a \in AccNums, limit \in Limits : get_transactions(MainThread, a, limit)

SpecHistory == Init /\ [][NextHistory]_vars

\* The Identity Service, single-threaded, on a store that never fails.
IdentityCall(t) ==
    \/ \E u \in Usernames, pr \in Profiles, pw \in Passwords : register_user(t, u, pr, pw)
    \/ \E u \in Usernames, pw \in Passwords : authenticate(t, u, pw)

IdentityRun(t) ==
    \/ RegisterSelect(t)
    \/ RegisterInsert(t)

NextIdentity == IdentityCall(MainThread) \/ IdentityRun(MainThread)

SpecIdentity == Init /\ [][NextIdentity]_vars

\* Two presentation layers on one store file, which never fails: the withdraw and
\* transfer calls of two threads interleave query by query, each query committing
\* on its own connection.
NextConc ==
    /\ \/ create_account(MainThread, CurrentUser, "RUB", MaxOverdraft)
       \/ \E t \in Threads :
              \/ \E a \in AccNums : withdraw(t, a, MaxOverdraft)
              \/ \E a \in AccNums, b \in AccNums : transfer(t, a, b, 1)
              \/ Run(t)
    /\ UNCHANGED <<users, clock>>

SpecConc == Init /\ [][NextConc]_vars

\* Every operation that writes, on a store whose queries may raise sqlite3.Error,
\* with restarts of the program and a moving wall clock.  A ledger call begins
\* while at most one query has failed, a registration while none has.
LogCall(t) ==
    \/ create_account(t, CurrentUser, "RUB", MaxOverdraft)
    \/ \E a \in AccNums : deposit(t, a, MaxAmount)
    \/ \E a \in AccNums : withdraw(t, a, 1)
    \/ \E a \in AccNums, b \in AccNums : transfer(t, a, b, 1)

NextLog ==
    \/ /\ \/ faults <= 1 /\ LogCall(MainThread)
          \/ Run(MainThread)
          \/ TransferRolledBack(MainThread)
          \/ StoreFails(MainThread)
       /\ UNCHANGED <<users, clock>>
    \/ faults = 0 /\ register_user(MainThread, "ivanov", "Ivan Ivanov", "password123")
    \/ IdentityRun(MainThread)
    \/ init_database
    \/ Tick

SpecLog == Init /\ [][NextLog]_vars

\* The Identity Service on a store whose queries may raise sqlite3.Error.
NextIdentityFail ==
    \/ IdentityCall(MainThread)
    \/ IdentityRun(MainThread)
    \/ StoreFails(MainThread) /\ UNCHANGED <<users, clock>>
    \/ \E u \in Usernames, pw \in Passwords : authenticate_raises(MainThread, u, pw)

SpecIdentityFail == Init /\ [][NextIdentityFail]_vars

\* Two presentation layers on one store file: the register_user calls of two
\* threads interleave query by query.
NextIdentityConc ==
    \E t \in Threads :
        \/ \E u \in Usernames, pr \in Profiles, pw \in Passwords :
               register_user(t, u, pr, pw)
        \/ IdentityRun(t)

SpecIdentityConc == Init /\ [][NextIdentityConc]_vars

\* =================================================================== claims
\* What a finished top-level call of thread t left behind.
Done(t, op) == Idle(t) /\ ctx[t].op = op
NewRows(t) == SubSeq(transactions, ctx[t].pretx + 1, Len(transactions))
Row(n, type, amount) == [account_number |-> n, transaction_type |-> type, amount |-> amount]
Bare(r) == Row(r.account_number, r.transaction_type, r.amount)
BareRows(rows) == [i \in 1..Len(rows) |-> Bare(rows[i])]
Existed(t, n) == n \in DOMAIN ctx[t].pre
Unchanged(t) == accounts = ctx[t].pre /\ NewRows(t) = << >>

RECURSIVE SumRows(_, _, _)
SumRows(rows, n, type) ==
    IF rows = << >> THEN 0
    ELSE (IF Head(rows).account_number = n /\ Head(rows).transaction_type = type
          THEN Head(rows).amount ELSE 0) + SumRows(Tail(rows), n, type)

\* C1: on a store that never fails, every account created with a non-negative
\* overdraft limit has balance >= -overdraft_limit in every state, the states
\* between the two legs of a transfer included.
C1_BalanceWithinOverdraft ==
    \A n \in DOMAIN accounts :
        accounts[n].overdraft_limit >= 0
            => accounts[n].balance >= -accounts[n].overdraft_limit

\* C1 witness: inside a transfer, after the withdrawal and before the deposit, the
\* source sits exactly at its (positive) overdraft limit.
C1_Witness ==
    \E t \in Threads :
        /\ Len(stack[t]) = 2
        /\ stack[t][1].fn = "transfer" /\ stack[t][1].pc = "deposited"
        /\ stack[t][2].fn = "deposit"
        /\ accounts[stack[t][1].acct].overdraft_limit > 0
        /\ accounts[stack[t][1].acct].balance = -accounts[stack[t][1].acct].overdraft_limit

\* C2: on a store that never fails, whenever no call is running every account's
\* balance is the sum of its DEPOSIT rows minus the sum of its WITHDRAWAL rows.
C2_BalanceIsLedgerSum ==
    (\A t \in Threads : Idle(t)) =>
        \A n \in DOMAIN accounts :
            accounts[n].balance =
                SumRows(transactions, n, "DEPOSIT") - SumRows(transactions, n, "WITHDRAWAL")

\* C2 witness: a transfer has succeeded and left an account with a non-zero balance
\* explained by its rows.
C2_Witness ==
    \E t \in Threads, n \in DOMAIN accounts :
        /\ Done(t, "transfer") /\ ret[t].ok
        /\ accounts[n].balance # 0
        /\ SumRows(transactions, n, "DEPOSIT") + SumRows(transactions, n, "WITHDRAWAL") > 0

\* The effect the spec states for a successful transfer of X from A to B.
TransferRows(t) ==
    BareRows(NewRows(t)) =
        << Row(ctx[t].acct, "WITHDRAWAL", ctx[t].amount),
           Row(ctx[t].to, "DEPOSIT", ctx[t].amount) >>

TransferMovesFunds(t) ==
    /\ accounts[ctx[t].acct].balance = ctx[t].pre[ctx[t].acct].balance - ctx[t].amount
    /\ accounts[ctx[t].to].balance = ctx[t].pre[ctx[t].to].balance + ctx[t].amount

\* C3 as stated: every successful transfer (A = B allowed) debits A by X, credits
\* B by X and appends exactly a WITHDRAWAL on A and a DEPOSIT on B.
C3_Original ==
    \A t \in Threads :
        Done(t, "transfer") /\ ret[t].ok => TransferMovesFunds(t) /\ TransferRows(t)

\* C3 amended: a successful transfer appends exactly a WITHDRAWAL on A and a
\* DEPOSIT on B of amount X; when A # B it debits A by X and credits B by X, and
\* when A = B it leaves the balance of A as it was.
C3_TransferEffect ==
    \A t \in Threads :
        Done(t, "transfer") /\ ret[t].ok =>
            /\ TransferRows(t)
            /\ ctx[t].amount > 0
            /\ ctx[t].pre[ctx[t].acct].currency = ctx[t].pre[ctx[t].to].currency
            /\ IF ctx[t].acct # ctx[t].to
               THEN TransferMovesFunds(t)
               ELSE accounts[ctx[t].acct].balance = ctx[t].pre[ctx[t].acct].balance

\* C3 witness: a transfer between two different accounts has succeeded.
C3_Witness ==
    \E t \in Threads :
        Done(t, "transfer") /\ ret[t].ok /\ ctx[t].acct # ctx[t].to

\* How the transfer of thread t went: its deposit leg failed / its compensating
\* deposit was made and failed or succeeded.
DepositLegFailed(t) == ctx[t].d.kind # "none" /\ ~ctx[t].d.ok
CompensationFailed(t) == ctx[t].c.kind # "none" /\ ~ctx[t].c.ok
CompensationSucceeded(t) == ctx[t].c.ok

\* C4: when the deposit leg of a transfer fails and the compensating deposit fails
\* too, transfer reports CompensationFailed (not the TransferFailed it reports when
\* the compensation succeeded).
C4_CompensationFailedReported ==
    \A t \in Threads :
        Done(t, "transfer") /\ DepositLegFailed(t) /\ CompensationFailed(t)
            => ret[t].kind = "CompensationFailed"

\* C5: when the deposit leg of a transfer fails and the compensating deposit
\* succeeds, transfer reports TransferFailed and both the source and the
\* destination balance are back at their pre-transfer values.
C5_FailedTransferUndone ==
    \A t \in Threads :
        Done(t, "transfer") /\ DepositLegFailed(t) /\ CompensationSucceeded(t) =>
            /\ ret[t].kind = "TransferFailed"
            /\ accounts[ctx[t].acct].balance = ctx[t].pre[ctx[t].acct].balance
            /\ accounts[ctx[t].to].balance = ctx[t].pre[ctx[t].to].balance

\* C6: after deposit or withdraw returns, either the balance changed by the amount
\* and exactly one matching row was appended, or neither happened.
C6_UnitOfWork ==
    \A t \in Threads :
        \A op \in {"deposit", "withdraw"} :
            Done(t, op) =>
                LET n == ctx[t].acct
                    delta == IF op = "deposit" THEN ctx[t].amount ELSE -ctx[t].amount
                    type == IF op = "deposit" THEN "DEPOSIT" ELSE "WITHDRAWAL"
                IN  \/ Unchanged(t)
                    \/ /\ Existed(t, n)
                       /\ accounts = [ctx[t].pre EXCEPT ![n].balance = @ + delta]
                       /\ BareRows(NewRows(t)) = << Row(n, type, ctx[t].amount) >>

CurrenciesDiffer(t) ==
    /\ Existed(t, ctx[t].acct) /\ Existed(t, ctx[t].to)
    /\ ctx[t].pre[ctx[t].acct].currency # ctx[t].pre[ctx[t].to].currency

\* C7 as stated: a transfer between two existing accounts of different currencies
\* fails with CurrencyMismatch for every amount, changing no balance and no row.
C7_Original ==
    \A t \in Threads :
        Done(t, "transfer") /\ CurrenciesDiffer(t)
            => ret[t].kind = "CurrencyMismatch" /\ Unchanged(t)

\* C7 amended: on a store that does not fail, a transfer between two existing
\* accounts of different currencies always fails, changing no balance and no row:
\* with CurrencyMismatch for every amount > 0, with InvalidAmount for amount <= 0.
C7_CurrencyMismatch ==
    \A t \in Threads :
        Done(t, "transfer") /\ CurrenciesDiffer(t) =>
            /\ ~ret[t].ok
            /\ Unchanged(t)
            /\ ret[t].kind = IF ctx[t].amount > 0 THEN "CurrencyMismatch"
                                                  ELSE "InvalidAmount"

\* C7 witness: a transfer across currencies was refused with CurrencyMismatch
\* although the source could not have paid the amount either.
C7_Witness ==
    \E t \in Threads :
        /\ Done(t, "transfer") /\ CurrenciesDiffer(t)
        /\ ctx[t].amount > ctx[t].pre[ctx[t].acct].balance
                           + ctx[t].pre[ctx[t].acct].overdraft_limit
        /\ ret[t].kind = "CurrencyMismatch"

\* The preconditions of transfer in the order the spec lists them, and those the
\* call of thread t violated in the store it started from.
PreconditionOrder ==
    << "InvalidAmount", "SourceNotFound", "DestinationNotFound",
       "CurrencyMismatch", "InsufficientFunds" >>

Violated(t) ==
    {k \in {"InvalidAmount"} : ctx[t].amount <= 0}
    \cup {k \in {"SourceNotFound"} : ~Existed(t, ctx[t].acct)}
    \cup {k \in {"DestinationNotFound"} : ~Existed(t, ctx[t].to)}
    \cup {k \in {"CurrencyMismatch"} : CurrenciesDiffer(t)}
    \cup {k \in {"InsufficientFunds"} :
             /\ Existed(t, ctx[t].acct)
             /\ ctx[t].amount > ctx[t].pre[ctx[t].acct].balance
                                + ctx[t].pre[ctx[t].acct].overdraft_limit}

FirstViolated(t) ==
    PreconditionOrder[CHOOSE i \in 1..Len(PreconditionOrder) :
        /\ PreconditionOrder[i] \in Violated(t)
        /\ \A j \in 1..(i - 1) : PreconditionOrder[j] \notin Violated(t)]

\* C8: on a store that does not fail, a transfer that violates one or more
\* preconditions reports the error of the first violated one in the order amount,
\* source, destination, currency, funds, and changes no balance and no row.
C8_PreconditionOrder ==
    \A t \in Threads :
        Done(t, "transfer") /\ Violated(t) # {}
            => ret[t].kind = FirstViolated(t) /\ Unchanged(t)

\* C8 witness: a transfer of a positive amount that violated two or more
\* preconditions at once has returned.
C8_Witness ==
    \E t \in Threads :
        /\ Done(t, "transfer")
        /\ ctx[t].amount > 0
        /\ Cardinality(Violated(t)) >= 2

\* C9: on a store that does not fail, withdraw of amount > 0 from an existing
\* account succeeds exactly when amount <= balance + overdraft_limit, debiting the
\* balance and appending one WITHDRAWAL row; otherwise it fails with
\* InsufficientFunds carrying available = balance + overdraft_limit and changes
\* no balance and no row.
C9_WithdrawFunds ==
    \A t \in Threads :
        Done(t, "withdraw") /\ Existed(t, ctx[t].acct) /\ ctx[t].amount > 0 =>
            LET n == ctx[t].acct
                available == ctx[t].pre[n].balance + ctx[t].pre[n].overdraft_limit
            IN  IF ctx[t].amount <= available
                THEN /\ ret[t].ok
                     /\ accounts = [ctx[t].pre EXCEPT ![n].balance = @ - ctx[t].amount]
                     /\ BareRows(NewRows(t)) = << Row(n, "WITHDRAWAL", ctx[t].amount) >>
                ELSE /\ ret[t] = [ok |-> FALSE, kind |-> "InsufficientFunds",
                                  available |-> available]
                     /\ Unchanged(t)

\* C9 witness: a withdrawal of exactly the available amount succeeded and left the
\* balance at minus the (positive) overdraft limit.
C9_Witness ==
    \E t \in Threads :
        /\ Done(t, "withdraw") /\ ret[t].ok
        /\ accounts[ctx[t].acct].overdraft_limit > 0
        /\ accounts[ctx[t].acct].balance = -accounts[ctx[t].acct].overdraft_limit

\* C10: deposit, withdraw and transfer called with amount <= 0 return InvalidAmount
\* at once, having made no store query, whether or not the accounts exist, and
\* change no balance and no row.
C10_InvalidAmount ==
    \A t \in Threads :
        ctx[t].op \in {"deposit", "withdraw", "transfer"} /\ ctx[t].amount <= 0 =>
            /\ Idle(t)
            /\ ret[t].kind = "InvalidAmount"
            /\ ctx[t].nq = 0
            /\ Unchanged(t)

\* C10 witness: a transfer with amount <= 0 that names a missing source account
\* has returned.
C10_Witness ==
    \E t \in Threads :
        /\ Done(t, "transfer")
        /\ ctx[t].amount <= 0
        /\ ~Existed(t, ctx[t].acct)

\* ------------------------------------------------------- Identity Service
UserRows(tbl, username) == {i \in 1..Len(tbl) : tbl[i].username = username}

\* C11: register_user on a username that is free succeeds and adds one row with
\* the given profile and the hash of the given password; on a username that is
\* taken (a second registration in sequence) it fails with UsernameTaken and
\* leaves the users table as it was; either way exactly one row carries the
\* username afterwards.
C11_DuplicateUsername ==
    \A t \in Threads :
        Done(t, "register_user") =>
            LET u == ctx[t].username
                pre == ctx[t].pre
            IN  /\ Cardinality(UserRows(users, u)) = 1
                /\ IF UserRows(pre, u) # {}
                   THEN ret[t].kind = "UsernameTaken" /\ users = pre
                   ELSE /\ ret[t].ok
                        /\ users = Append(pre,
                               [id |-> Len(pre) + 1, username |-> u,
                                profile |-> ctx[t].profile,
                                password_hash |-> hash_password(ctx[t].password)])

\* C11 witness: a second registration of a taken username, with another profile
\* and another password, has been refused.
C11_Witness ==
    \E t \in Threads :
        /\ Done(t, "register_user")
        /\ ret[t].kind = "UsernameTaken"
        /\ \E i \in UserRows(users, ctx[t].username) :
              /\ users[i].profile # ctx[t].profile
              /\ users[i].password_hash # hash_password(ctx[t].password)

\* C12: authenticate returns a summary of the user exactly when the username is
\* registered and the hash of the supplied password equals the stored hash; in
\* every other case (unknown username, wrong password) it returns the one value
\* None.
C12_AuthenticateOutcome ==
    \A t \in Threads :
        Done(t, "authenticate") =>
            LET rows == {i \in UserRows(users, ctx[t].username) :
                            users[i].password_hash = <<"sha256", ctx[t].password>>}
            IN  IF rows # {}
                THEN \E i \in rows :
                        ret[t] = [ok |-> TRUE, kind |-> "Summary", id |-> users[i].id,
                                  profile |-> users[i].profile,
                                  username |-> users[i].username]
                ELSE ret[t] = [ok |-> FALSE, kind |-> "None"]

\* C12 witness: a wrong password for a registered username was answered None.
C12_Witness ==
    \E t \in Threads :
        /\ Done(t, "authenticate")
        /\ UserRows(users, ctx[t].username) # {}
        /\ ret[t] = [ok |-> FALSE, kind |-> "None"]

\* C19: with the register_user calls of two threads interleaved, no two rows of
\* users carry the same username, and of two finished calls for the same username
\* at most one reports success.
C19_UsernameUnique ==
    /\ \A i, j \in 1..Len(users) : users[i].username = users[j].username => i = j
    /\ \A t1, t2 \in Threads :
          /\ t1 # t2
          /\ Done(t1, "register_user") /\ Done(t2, "register_user")
          /\ ctx[t1].username = ctx[t2].username
          => ~(ret[t1].ok /\ ret[t2].ok)

\* C19 witness: two calls for the same username both passed the lookup (both are
\* at the insert or beyond with no row seen), one inserted and the other was
\* refused by the store.
C19_Witness ==
    \E t1, t2 \in Threads :
        /\ t1 # t2
        /\ Done(t1, "register_user") /\ Done(t2, "register_user")
        /\ ctx[t1].username = ctx[t2].username
        /\ ret[t1].ok
        /\ ret[t2].kind = "StorageError"

\* ----------------------------------------------------------- create_account
\* C14: create_account either adds one account with balance 0, owned by the given
\* user, under a number that was not present, or fails with StorageError and
\* leaves the accounts table as it was (in particular when the drawn number is
\* taken: the existing row keeps owner, currency, balance and limit).  It writes
\* no transaction row.
C14_CreateAccount ==
    \A t \in Threads :
        Done(t, "create_account") =>
            /\ NewRows(t) = << >>
            /\ IF ret[t].ok
               THEN \E n \in AccNums \ DOMAIN ctx[t].pre :
                       accounts = ctx[t].pre @@
                           (n :> [user_id |-> ctx[t].user_id,
                                  currency |-> ctx[t].currency,
                                  balance |-> 0,
                                  overdraft_limit |-> ctx[t].overdraft_limit])
               ELSE ret[t].kind = "StorageError" /\ accounts = ctx[t].pre

\* C14 witness: a creation drew the number of an account that holds money and
\* belongs to another user, and failed.
C14_Witness ==
    \E t \in Threads :
        /\ Done(t, "create_account")
        /\ ret[t].kind = "StorageError"
        /\ \E n \in DOMAIN accounts :
              accounts[n].balance > 0 /\ accounts[n].user_id # ctx[t].user_id

\* C15: every account has overdraft_limit >= 0.
C15_OverdraftNonNegative ==
    \A n \in DOMAIN accounts : accounts[n].overdraft_limit >= 0
\* ------------------------------------------------------------ store failure
\* C13: when the store fails during a call, the operation hands back a value; no
\* call ends with the storage exception raised out of the operation.
C13_NoExceptionEscapes ==
    \A t \in Threads : ctx[t].faulted => ret[t].kind # "Raised"
\* ----------------------------------------------------------- get_transactions
\* C16: get_transactions(account, limit) returns min(limit, n) rows of the account,
\* most recent first: a row written later never comes after a row written earlier,
\* and the rows returned are the last ones written.
C16_MostRecentFirst ==
    \A t \in Threads :
        Done(t, "get_transactions") =>
            LET p   == ctx[t].picked
                ids == RowsOf(ctx[t].acct)
                n   == Cardinality(ids)
                k   == IF ctx[t].limit < n THEN ctx[t].limit ELSE n
            IN  /\ Len(ret[t].rows) = k
                /\ \A i \in 1..Len(p) : p[i] \in ids
                /\ \A i, j \in 1..Len(p) : i < j => p[i] > p[j]
                /\ \A i \in 1..Len(p) :
                      Cardinality({m \in ids : m > p[i]}) < k
\* ------------------------------------------------------------ transaction log
\* C17: the transaction log is append-only: a step of register_user,
\* create_account, deposit, withdraw, transfer (failed and compensated ones
\* included) or init_database leaves every row written so far in place with the
\* same account number, type, amount, description and timestamp.
C17_AppendOnly ==
    [][/\ Len(transactions') >= Len(transactions)
       /\ \A i \in 1..Len(transactions) : transactions'[i] = transactions[i]]_vars

\* C17 witness: a transfer whose deposit leg failed has been compensated, on a
\* store that holds a user: the rows of the withdraw leg and of the compensation
\* are both in the log.
C17_Witness ==
    \E t \in Threads :
        /\ Done(t, "transfer")
        /\ DepositLegFailed(t)
        /\ CompensationSucceeded(t)
        /\ Len(NewRows(t)) = 2
        /\ users # << >>
\* -------------------------------------------------------------- concurrency
WithinLimit(accts, n) ==
    accts[n].overdraft_limit >= 0 => accts[n].balance >= -accts[n].overdraft_limit

\* The UPDATE of a withdraw by thread t on account n, whose funds check passed on
\* a balance that is no longer the stored one.
StaleWithdrawUpdate(t, n) ==
    /\ At(t, "withdraw", "update")
    /\ Top(t).acct = n
    /\ Top(t).amount <= Top(t).row.balance + Top(t).row.overdraft_limit
    /\ Top(t).row.balance # accounts[n].balance
    /\ stack'[t] # stack[t]

\* C18: with the queries of concurrent withdraw and transfer calls interleaved, the
\* funds check of withdraw is a check-then-write: an account goes from within its
\* overdraft limit to below it (balance < -overdraft_limit) only by the UPDATE of
\* a withdraw whose check passed on a balance read before another call's UPDATE,
\* and such an overdrawn state is reachable.
C18_OverdrawnByStaleCheck ==
    [][\A n \in DOMAIN accounts :
          WithinLimit(accounts, n) /\ ~WithinLimit(accounts', n)
              => \E t \in Threads : StaleWithdrawUpdate(t, n)]_vars

\* C18 witness: both threads read the same balance of the same account, both
\* passed the check, both have made their UPDATE, and the account is below its
\* overdraft limit.
C18_Witness ==
    \E n \in DOMAIN accounts :
        /\ accounts[n].overdraft_limit >= 0
        /\ accounts[n].balance < -accounts[n].overdraft_limit
        /\ \A t \in Threads :
              /\ At(t, "withdraw", "insert")
              /\ Top(t).acct = n
              /\ Top(t).amount <= Top(t).row.balance + Top(t).row.overdraft_limit
        /\ \A t1, t2 \in Threads : Top(t1).row.balance = Top(t2).row.balance

====
